---- MODULE Spec2Model ----
(***************************************************************************)
(* Model of rgb.c (RGB Wave firmware for the ATtiny25): the light table,   *)
(* sendrgbElement (fade loop, final write, hold loop) and main (360 passes *)
(* over the table, then teardown).                                         *)
(*                                                                         *)
(* Channel values are in the code's register domain: the value written to  *)
(* OCR1A / OCR1B / OCR0A is 255 minus the table intensity.                 *)
(***************************************************************************)
EXTENDS Integers, Sequences, FiniteSets, TLC

\* ------------------------------------------------------------------------
\* Bounds of the model (not program constants)
\* ------------------------------------------------------------------------
\* largest number of non-sentinel keyframes in a table
MaxLen == 2
\* largest fadeTime of a keyframe
MaxFade == 2
\* largest holdTime of a keyframe
MaxHold == 1
\* the tables run from power-on through all passes have at most this many
\* ticks per pass
MaxMainTicks == 2

\* ------------------------------------------------------------------------
\* Program constants
\* ------------------------------------------------------------------------
\* for (int count=0; count<360; count++)
NumPasses == 360
\* unsigned char is 8 bits wide
ByteMod == 256
\* the largest value of the target's 16-bit signed int
IntMax == 32767
\* the largest fadeTime in the built-in table
TableMaxFade == 7000

\* ------------------------------------------------------------------------
\* The light table
\* ------------------------------------------------------------------------
\* table intensities <<red, green, blue>> the modelled tables draw from;
\* between them the register-domain deltas 0, +-1, +-2, +-253, +-255 occur
Colors == { <<255, 255, 255>>, <<255, 253, 0>>, <<0, 254, 253>> }

\* struct rgbElement
rgbElement(f, h, c) ==
  [fadeTime |-> f, holdTime |-> h, red |-> c[1], green |-> c[2], blue |-> c[3]]

\* the terminating entry { 0, 0, 0, 0, 0 }
Sentinel == rgbElement(0, 0, <<0, 0, 0>>)

\* the test of the do-while in main
IsSentinel(e) == e.fadeTime = 0 /\ e.holdTime = 0

\* the keyframes a table may hold before its sentinel
Keyframes ==
  { e \in { rgbElement(f, h, c) : f \in 0..MaxFade, h \in 0..MaxHold, c \in Colors } :
      ~IsSentinel(e) }

\* N >= 1 non-sentinel keyframes followed by the sentinel
Tables ==
  UNION { { t \o <<Sentinel>> : t \in [1..n -> Keyframes] } : n \in 1..MaxLen }

RECURSIVE SumTicks(_, _)
\* sum of fadeTime + holdTime over entries 1..k of t
SumTicks(t, k) ==
  IF k = 0 THEN 0 ELSE t[k].fadeTime + t[k].holdTime + SumTicks(t, k - 1)

\* ticks of one pass over table t, as the comment above lightTab adds them
PassTicks(t) == SumTicks(t, Len(t))

\* writes of the three outputs while entry e is played: one per fade tick and
\* the final write, and one more at the FadeTime == 0 test
WritesOfKey(e) == e.fadeTime + (IF e.fadeTime = 0 THEN 2 ELSE 1)

RECURSIVE SumWrites(_, _)
\* sum of WritesOfKey over entries 1..k of t
SumWrites(t, k) ==
  IF k = 0 THEN 0 ELSE WritesOfKey(t[k]) + SumWrites(t, k - 1)

\* lightTab as built into the program: 98 keyframes and the sentinel
RefTab ==
  << rgbElement(0, 500, <<0, 0, 0>>),
     rgbElement(500, 500, <<255, 0, 0>>),
     rgbElement(500, 500, <<0, 255, 0>>),
     rgbElement(500, 500, <<0, 0, 255>>),
     rgbElement(500, 500, <<0, 255, 255>>),
     rgbElement(500, 500, <<255, 0, 255>>),
     rgbElement(500, 500, <<255, 255, 0>>),
     rgbElement(500, 2500, <<255, 255, 255>>),
     rgbElement(7000, 2500, <<255, 0, 0>>),
     rgbElement(7000, 2500, <<0, 255, 0>>),
     rgbElement(7000, 2500, <<0, 0, 255>>),
     rgbElement(7000, 2500, <<155, 64, 0>>),
     rgbElement(7000, 2500, <<64, 255, 64>>),
     rgbElement(7000, 2500, <<0, 64, 255>>),
     rgbElement(7000, 2500, <<64, 0, 64>>),
     rgbElement(7000, 1500, <<155, 0, 0>>),
     rgbElement(7000, 1500, <<0, 255, 0>>),
     rgbElement(7000, 1500, <<0, 0, 255>>),
     rgbElement(7000, 1500, <<140, 0, 240>>),
     rgbElement(7000, 1500, <<155, 155, 0>>),
     rgbElement(7000, 1500, <<155, 255, 255>>),
     rgbElement(7000, 1500, <<128, 128, 128>>),
     rgbElement(7000, 1500, <<48, 48, 58>>),
     rgbElement(7000, 1500, <<0, 0, 0>>),
     rgbElement(2500, 2500, <<155, 0, 0>>),
     rgbElement(2500, 2500, <<155, 255, 0>>),
     rgbElement(2500, 2500, <<0, 255, 0>>),
     rgbElement(2500, 2500, <<0, 255, 255>>),
     rgbElement(2500, 2500, <<0, 0, 255>>),
     rgbElement(2500, 2500, <<155, 0, 255>>),
     rgbElement(2500, 0, <<0, 0, 0>>),
     rgbElement(2500, 2500, <<155, 0, 0>>),
     rgbElement(2500, 2500, <<155, 255, 0>>),
     rgbElement(2500, 2500, <<0, 255, 0>>),
     rgbElement(2500, 2500, <<0, 255, 255>>),
     rgbElement(2500, 2500, <<0, 0, 255>>),
     rgbElement(2500, 2500, <<155, 0, 255>>),
     rgbElement(2500, 0, <<0, 0, 0>>),
     rgbElement(2500, 2500, <<154, 32, 0>>),
     rgbElement(2500, 2500, <<154, 128, 0>>),
     rgbElement(2500, 2500, <<154, 240, 0>>),
     rgbElement(2500, 2500, <<128, 240, 0>>),
     rgbElement(0, 2500, <<0, 0, 0>>),
     rgbElement(2500, 2500, <<0, 16, 255>>),
     rgbElement(2500, 2500, <<0, 128, 255>>),
     rgbElement(2500, 2500, <<0, 240, 128>>),
     rgbElement(2500, 2500, <<16, 16, 240>>),
     rgbElement(2500, 2500, <<140, 16, 240>>),
     rgbElement(2500, 2500, <<64, 0, 250>>),
     rgbElement(0, 2500, <<10, 10, 10>>),
     rgbElement(0, 2500, <<0, 0, 0>>),
     rgbElement(2500, 2500, <<140, 0, 240>>),
     rgbElement(2500, 2500, <<32, 0, 240>>),
     rgbElement(2500, 2500, <<128, 0, 128>>),
     rgbElement(2500, 2500, <<140, 0, 32>>),
     rgbElement(2500, 0, <<0, 0, 10>>),
     rgbElement(2500, 0, <<0, 0, 0>>),
     rgbElement(1000, 1000, <<0, 0, 0>>),
     rgbElement(1000, 1000, <<32, 0, 0>>),
     rgbElement(1000, 1000, <<64, 0, 0>>),
     rgbElement(0, 1000, <<96, 0, 0>>),
     rgbElement(1000, 0, <<128, 0, 0>>),
     rgbElement(1000, 0, <<160, 32, 0>>),
     rgbElement(1000, 0, <<192, 64, 0>>),
     rgbElement(1000, 0, <<124, 96, 0>>),
     rgbElement(0, 1000, <<155, 128, 0>>),
     rgbElement(1000, 1000, <<0, 160, 0>>),
     rgbElement(0, 1000, <<0, 192, 0>>),
     rgbElement(1000, 1000, <<0, 224, 32>>),
     rgbElement(1000, 0, <<0, 255, 64>>),
     rgbElement(1000, 0, <<0, 0, 96>>),
     rgbElement(1000, 0, <<0, 0, 128>>),
     rgbElement(1000, 0, <<0, 0, 160>>),
     rgbElement(1000, 0, <<0, 0, 192>>),
     rgbElement(1000, 0, <<0, 0, 224>>),
     rgbElement(1000, 1000, <<0, 0, 255>>),
     rgbElement(1000, 0, <<0, 0, 0>>),
     rgbElement(0, 1000, <<0, 0, 255>>),
     rgbElement(1000, 1000, <<32, 0, 0>>),
     rgbElement(1000, 1000, <<96, 0, 0>>),
     rgbElement(1000, 1000, <<160, 0, 0>>),
     rgbElement(1000, 0, <<255, 0, 0>>),
     rgbElement(1000, 1000, <<0, 96, 0>>),
     rgbElement(1000, 1000, <<0, 160, 32>>),
     rgbElement(1000, 1000, <<0, 224, 64>>),
     rgbElement(1000, 1000, <<0, 255, 96>>),
     rgbElement(1000, 1000, <<0, 0, 128>>),
     rgbElement(1000, 1000, <<0, 0, 160>>),
     rgbElement(1000, 1000, <<0, 32, 192>>),
     rgbElement(1000, 1000, <<0, 64, 224>>),
     rgbElement(1000, 1000, <<0, 96, 225>>),
     rgbElement(1000, 1000, <<0, 128, 0>>),
     rgbElement(1000, 1000, <<0, 160, 0>>),
     rgbElement(1000, 1000, <<0, 192, 32>>),
     rgbElement(1000, 1000, <<0, 224, 64>>),
     rgbElement(1000, 1000, <<0, 255, 96>>),
     rgbElement(1000, 1000, <<0, 0, 255>>),
     rgbElement(1000, 1000, <<0, 0, 0>>),
     rgbElement(0, 0, <<0, 0, 0>>) >>

\* longest short fade of a two-keyframe table
MaxKeyFade == 6

\* fadeTime of most keyframes of the built-in table
LongFade == 500

\* intensities of the two-keyframe tables: between any two of them the
\* register-domain deltas 0, 1, 2, 3, 125..128, 252..255 occur in both directions
KeyColors == { <<0, 0, 0>>, <<255, 254, 253>>, <<3, 2, 1>>, <<128, 255, 0>> }

\* fadeTime of the second keyframe of a two-keyframe table: every short
\* fade, and the fade time most entries of the built-in table have
KeyFades == (0..MaxKeyFade) \cup {LongFade}

\* a keyframe shown at once and held for a tick, then a keyframe that fades
\* from it, then the sentinel
KeyTables ==
  { t \in { <<rgbElement(0, 1, c0), rgbElement(f, h, c1), Sentinel>> :
              c0 \in KeyColors, c1 \in KeyColors, f \in KeyFades, h \in 0..MaxHold } :
      ~IsSentinel(t[2]) }

\* the values of an int; an int variable of the model holds the mathematical
\* result of the code's computation, so an overflow in the code shows as a
\* value outside this range
IntRange == (-IntMax - 1)..IntMax

\* the largest fadeTime for which 2 * fadeTime + 1 is an int
MaxIntFade == (IntMax - 1) \div 2

\* fadeTime of the second keyframe of a long-fade table: the shortest fade,
\* the longest of the built-in table, and the longest with 2 * fadeTime + 1
\* in the range of an int
IntFades == {1, TableMaxFade, MaxIntFade}

\* a keyframe shown at once and held for a tick, then a keyframe with a
\* long fade from it, then the sentinel
IntTables ==
  { <<rgbElement(0, 1, c0), rgbElement(f, 0, c1), Sentinel>> :
      c0 \in KeyColors, c1 \in KeyColors, f \in IntFades }

\* the ticks of one pass as the comment above lightTab states them
DocPassTicks == 259000

\* the intensities of the tables played from power-on: all LEDs off, and
\* one LED fully on with the others one and two units off it
MainColors == { <<255, 255, 255>>, <<0, 254, 253>> }

\* tables played from power-on through all NumPasses passes
MainTables ==
  { t \in Tables :
      /\ PassTicks(t) <= MaxMainTicks
      /\ \A i \in 1..(Len(t) - 1) : <<t[i].red, t[i].green, t[i].blue>> \in MainColors }

VARIABLES
  lightTab,      \* the table in program memory (never written)
  pc,            \* position of the single thread of control
  index, count,  \* locals of main
  OCR1A, OCR1B, OCR0A,   \* PWM compare registers: red, blue, green
  timersOn,      \* Timer0 / Timer1 running (started by initialize)
  \* locals of sendrgbElement
  FadeTime, HoldTime,
  Red, Green, Blue,
  redPrev, greenPrev, bluePrev,
  redTime, greenTime, blueTime,
  redTemp, greenTemp, blueTemp,
  redDelta, greenDelta, blueDelta,
  redTimeInc, greenTimeInc, blueTimeInc,
  redInc, greenInc, blueInc,
  fadeCounter, holdCounter,
  \* observation of the run (history)
  nInit,         \* calls of initialize
  nTeardown,     \* calls of teardown
  nPasses,       \* passes that reached the sentinel
  passPlayed,    \* indices sendrgbElement was called with in this pass
  passTicks,     \* delay_ten_us(100) calls in this pass
  nFadeWrite,    \* writes of the running values in this keyframe's fade loop
  nTargetWrite,  \* writes of the target values in this keyframe
  nFadeDelay,    \* delay_ten_us(100) calls in this keyframe's fade loop
  nHoldDelay,    \* delay_ten_us(100) calls in this keyframe's hold loop
  lastOp,        \* the last step taken
  lastRead,      \* indices of lightTab the last step read
  nPassWrites,   \* writes of the three outputs in this pass
  firstWrites,   \* nPassWrites at the end of the first pass
  firstTicks,    \* passTicks at the end of the first pass
  probe,         \* one write of the first pass, picked freely, or NoProbe
  threaded       \* the outputs the last keyframe of this pass ended with,
                 \* <<red, green, blue>>; <<0, 0, 0>> when the pass starts

mainVars == <<index, count>>
regs == <<OCR1A, OCR1B, OCR0A>>
locals ==
  <<FadeTime, HoldTime, Red, Green, Blue, redPrev, greenPrev, bluePrev,
    redTime, greenTime, blueTime, redTemp, greenTemp, blueTemp,
    redDelta, greenDelta, blueDelta, redTimeInc, greenTimeInc, blueTimeInc,
    redInc, greenInc, blueInc, fadeCounter, holdCounter>>
\* the locals sendrgbElement sets once, before the fade loop
setup ==
  <<FadeTime, HoldTime, Red, Green, Blue, redPrev, greenPrev, bluePrev,
    redDelta, greenDelta, blueDelta, redTimeInc, greenTimeInc, blueTimeInc,
    redInc, greenInc, blueInc>>
\* the running values and the next adjustment ticks
running == <<redTime, greenTime, blueTime, redTemp, greenTemp, blueTemp>>
runCounts == <<nInit, nTeardown, nPasses>>
passHist == <<passPlayed, passTicks>>
keyHist == <<nFadeWrite, nTargetWrite, nFadeDelay, nHoldDelay>>
firsts == <<firstWrites, firstTicks>>
writeObs == <<nPassWrites, probe>>
obs == <<firsts, writeObs, threaded>>
vars ==
  <<lightTab, pc, mainVars, regs, timersOn, locals, runCounts, passHist,
    keyHist, lastOp, lastRead, obs>>

\* ------------------------------------------------------------------------
\* Helpers
\* ------------------------------------------------------------------------
\* lightTab[i] with the C (0-based) index
Entry(i) == lightTab[i + 1]

\* number of non-sentinel keyframes = position of the sentinel
N == Len(lightTab) - 1

\* 255 - pgm_read_byte(...), stored in an unsigned char
Inverted(b) == (255 - b) % ByteMod

\* C integer division: truncation toward zero
CDiv(a, b) ==
  IF (a >= 0) = (b > 0) THEN a \div (IF b > 0 THEN b ELSE -b)
  ELSE -((IF a >= 0 THEN a ELSE -a) \div (IF b > 0 THEN b ELSE -b))

\* StepTime without the 1 added to the quotient
StepTimeNoBias(fade, delta) ==
  IF delta # 0
  THEN LET q == CDiv(fade, delta)
       IN  (IF q < 0 THEN -q ELSE q)
  ELSE 0

\* StepTime with the quotient rounded toward minus infinity
StepTimeFloor(fade, delta) ==
  IF delta # 0
  THEN LET q == IF delta > 0 THEN fade \div delta
                 ELSE -((fade + (-delta) - 1) \div (-delta))
       IN  (IF q < 0 THEN -q ELSE q) + 1
  ELSE 0

\* StepTime with 1 instead of 0 as the value for a channel that does not change
StepTimeDefaultOne(fade, delta) ==
  IF delta # 0
  THEN LET q == CDiv(fade, delta)
       IN  (IF q < 0 THEN -q ELSE q) + 1
  ELSE 1

\* redTime / greenTime / blueTime as set up before the fade loop
StepTime(fade, delta) ==
  IF delta # 0
  THEN LET q == CDiv(fade, delta)
       IN  (IF q < 0 THEN -q ELSE q) + 1
  ELSE 0

\* redInc / greenInc / blueInc: unsigned char 1, or (unsigned char)-1
IncOf(delta) == IF delta < 0 THEN 255 ELSE 1

\* redTemp = redTemp + redInc, stored in an unsigned char
AddByte(temp, inc) == (temp + inc) % ByteMod

\* the register values of table entry i: <<red, green, blue>>
TargetOf(i) ==
  <<Inverted(Entry(i).red), Inverted(Entry(i).green), Inverted(Entry(i).blue)>>

\* the outputs as <<red, green, blue>>
Outputs == <<OCR1A, OCR0A, OCR1B>>

\* PrevOf read from entry i itself instead of entry i - 1
PrevOfSelf(i) == IF i # 0 THEN TargetOf(i) ELSE <<0, 0, 0>>

\* PrevOf with the values on the outputs, not 0, as the start of keyframe 0
PrevOfOutputs(i) == IF i # 0 THEN TargetOf(i - 1) ELSE Outputs

\* the previous values sendrgbElement(i) starts from
PrevOf(i) == IF i # 0 THEN TargetOf(i - 1) ELSE <<0, 0, 0>>

\* ReadsOf without the test index != 0 before entry i - 1 is read
ReadsOfUnguarded(i) == {i, i - 1}

\* the indices of lightTab that sendrgbElement(i) reads
ReadsOf(i) == {i} \cup (IF i # 0 THEN {i - 1} ELSE {})

\* no write has been picked (write numbers start at 1)
NoProbe == [k |-> 0, val |-> <<0, 0, 0>>, ticks |-> 0, steps |-> <<0, 0, 0>>]

\* the observation of one write of val = <<red, green, blue>>: it is counted,
\* and in the first pass it may be picked as the probe, with its number in
\* the pass, the ticks of the pass so far and the step intervals in force
ObserveWrite(val) ==
  /\ nPassWrites' = nPassWrites + 1
  /\ probe' \in
       IF probe = NoProbe /\ nPasses = 0
       THEN { NoProbe,
              [k |-> nPassWrites + 1, val |-> val, ticks |-> passTicks,
               steps |-> <<redTimeInc, greenTimeInc, blueTimeInc>>] }
       ELSE { probe }

ZeroLocals ==
  /\ FadeTime = 0 /\ HoldTime = 0
  /\ Red = 0 /\ Green = 0 /\ Blue = 0
  /\ redPrev = 0 /\ greenPrev = 0 /\ bluePrev = 0
  /\ redTime = 0 /\ greenTime = 0 /\ blueTime = 0
  /\ redTemp = 0 /\ greenTemp = 0 /\ blueTemp = 0
  /\ redDelta = 0 /\ greenDelta = 0 /\ blueDelta = 0
  /\ redTimeInc = 0 /\ greenTimeInc = 0 /\ blueTimeInc = 0
  /\ redInc = 0 /\ greenInc = 0 /\ blueInc = 0
  /\ fadeCounter = 0 /\ holdCounter = 0

\* ------------------------------------------------------------------------
\* Initial states
\* ------------------------------------------------------------------------
\* power-on: main is about to call initialize
Init ==
  /\ lightTab \in MainTables
  /\ pc = "init"
  /\ index = 0 /\ count = 0
  /\ OCR1A = 0 /\ OCR1B = 0 /\ OCR0A = 0
  /\ timersOn = FALSE
  /\ ZeroLocals
  /\ nInit = 0 /\ nTeardown = 0 /\ nPasses = 0
  /\ passPlayed = <<>> /\ passTicks = 0
  /\ nFadeWrite = 0 /\ nTargetWrite = 0 /\ nFadeDelay = 0 /\ nHoldDelay = 0
  /\ lastOp = "none"
  /\ lastRead = {}
  /\ nPassWrites = 0 /\ firstWrites = 0 /\ firstTicks = 0
  /\ probe = NoProbe
  /\ threaded = <<0, 0, 0>>

\* ------------------------------------------------------------------------
\* initialize
\* ------------------------------------------------------------------------
initialize ==
  /\ pc = "init"
  /\ OCR1A' = 0 /\ OCR1B' = 0 /\ OCR0A' = 0
  /\ timersOn' = TRUE
  /\ nInit' = nInit + 1
  /\ index' = 0 /\ count' = 0
  /\ pc' = "forTest"
  /\ lastOp' = "initialize"
  /\ UNCHANGED <<lightTab, locals, nTeardown, nPasses, passHist, keyHist>>
  /\ lastRead' = {}
  /\ UNCHANGED obs

\* ------------------------------------------------------------------------
\* sendrgbElement
\* ------------------------------------------------------------------------
\* the call and the set-up of the locals
sendrgbElement ==
  /\ pc = "call"
  /\ LET tgt == TargetOf(index)
         prv == PrevOf(index)
         fade == Entry(index).fadeTime
         dR == tgt[1] - prv[1]
         dG == tgt[2] - prv[2]
         dB == tgt[3] - prv[3]
     IN  /\ FadeTime' = fade
         /\ HoldTime' = Entry(index).holdTime
         /\ Red' = tgt[1] /\ Green' = tgt[2] /\ Blue' = tgt[3]
         /\ redPrev' = prv[1] /\ greenPrev' = prv[2] /\ bluePrev' = prv[3]
         /\ redTemp' = prv[1] /\ greenTemp' = prv[2] /\ blueTemp' = prv[3]
         /\ redDelta' = dR /\ greenDelta' = dG /\ blueDelta' = dB
         /\ redTime' = StepTime(fade, dR)
         /\ greenTime' = StepTime(fade, dG)
         /\ blueTime' = StepTime(fade, dB)
         /\ redTimeInc' = StepTime(fade, dR)
         /\ greenTimeInc' = StepTime(fade, dG)
         /\ blueTimeInc' = StepTime(fade, dB)
         /\ redInc' = IncOf(dR) /\ greenInc' = IncOf(dG) /\ blueInc' = IncOf(dB)
  /\ fadeCounter' = 0 /\ holdCounter' = 0
  /\ passPlayed' = Append(passPlayed, index)
  /\ nFadeWrite' = 0 /\ nTargetWrite' = 0 /\ nFadeDelay' = 0 /\ nHoldDelay' = 0
  /\ pc' = "blink"
  /\ lastOp' = "enter"
  /\ UNCHANGED <<lightTab, mainVars, regs, timersOn, runCounts, passTicks>>
  /\ lastRead' = ReadsOf(index)
  /\ UNCHANGED obs

\* BlinkCheck with the fade loop started at 0 instead of 1
BlinkCheckFromZero ==
  /\ pc = "blink"
  /\ IF FadeTime = 0
     THEN /\ OCR1A' = Red /\ OCR1B' = Blue /\ OCR0A' = Green
          /\ nTargetWrite' = nTargetWrite + 1
          /\ lastOp' = "blinkWrite"
          /\ ObserveWrite(<<Red, Green, Blue>>)
     ELSE /\ UNCHANGED <<regs, nTargetWrite, writeObs>>
          /\ lastOp' = "noBlink"
  /\ fadeCounter' = 0
  /\ pc' = "fade"
  /\ UNCHANGED <<lightTab, mainVars, timersOn, setup, running, holdCounter,
                 runCounts, passHist, nFadeWrite, nFadeDelay, nHoldDelay>>
  /\ lastRead' = {}
  /\ UNCHANGED <<firsts, threaded>>

\* if (FadeTime == 0) { write the targets }; then int fadeCounter=1
BlinkCheck ==
  /\ pc = "blink"
  /\ IF FadeTime = 0
     THEN /\ OCR1A' = Red /\ OCR1B' = Blue /\ OCR0A' = Green
          /\ nTargetWrite' = nTargetWrite + 1
          /\ lastOp' = "blinkWrite"
          /\ ObserveWrite(<<Red, Green, Blue>>)
     ELSE /\ UNCHANGED <<regs, nTargetWrite, writeObs>>
          /\ lastOp' = "noBlink"
  /\ fadeCounter' = 1
  /\ pc' = "fade"
  /\ UNCHANGED <<lightTab, mainVars, timersOn, setup, running, holdCounter,
                 runCounts, passHist, nFadeWrite, nFadeDelay, nHoldDelay>>
  /\ lastRead' = {}
  /\ UNCHANGED <<firsts, threaded>>

\* FadeAdjust that does not schedule the next adjustment
FadeAdjustOnce(counter, temp, time, inc, timeInc) ==
  IF counter = time
  THEN <<AddByte(temp, inc), time>>
  ELSE <<temp, time>>

\* FadeAdjust that moves the next adjustment on in every tick
FadeAdjustDrift(counter, temp, time, inc, timeInc) ==
  IF counter = time
  THEN <<AddByte(temp, inc), time + timeInc>>
  ELSE <<temp, time + timeInc>>

\* one channel in one tick of the fade loop: <<new temp, new time>>
FadeAdjust(counter, temp, time, inc, timeInc) ==
  IF counter = time
  THEN <<AddByte(temp, inc), time + timeInc>>
  ELSE <<temp, time>>

\* FadeStep with red adjusted at the ticks scheduled for green
FadeStepSharedTime ==
  /\ pc = "fade"
  /\ fadeCounter <= FadeTime
  /\ LET r == FadeAdjust(fadeCounter, redTemp, greenTime, redInc, redTimeInc)
         g == FadeAdjust(fadeCounter, greenTemp, greenTime, greenInc, greenTimeInc)
         b == FadeAdjust(fadeCounter, blueTemp, blueTime, blueInc, blueTimeInc)
     IN  /\ redTemp' = r[1] /\ redTime' = r[2]
         /\ greenTemp' = g[1] /\ greenTime' = g[2]
         /\ blueTemp' = b[1] /\ blueTime' = b[2]
         /\ OCR1A' = r[1] /\ OCR1B' = b[1] /\ OCR0A' = g[1]
         /\ ObserveWrite(<<r[1], g[1], b[1]>>)
  /\ nFadeWrite' = nFadeWrite + 1
  /\ pc' = "fadeDelay"
  /\ lastOp' = "fadeWrite"
  /\ UNCHANGED <<lightTab, mainVars, timersOn, setup, fadeCounter, holdCounter,
                 runCounts, passHist, nTargetWrite, nFadeDelay, nHoldDelay>>
  /\ lastRead' = {}
  /\ UNCHANGED <<firsts, threaded>>

\* FadeStep with the registers written before the channels are adjusted
FadeStepWriteFirst ==
  /\ pc = "fade"
  /\ fadeCounter <= FadeTime
  /\ LET r == FadeAdjust(fadeCounter, redTemp, redTime, redInc, redTimeInc)
         g == FadeAdjust(fadeCounter, greenTemp, greenTime, greenInc, greenTimeInc)
         b == FadeAdjust(fadeCounter, blueTemp, blueTime, blueInc, blueTimeInc)
     IN  /\ redTemp' = r[1] /\ redTime' = r[2]
         /\ greenTemp' = g[1] /\ greenTime' = g[2]
         /\ blueTemp' = b[1] /\ blueTime' = b[2]
         /\ OCR1A' = redTemp /\ OCR1B' = blueTemp /\ OCR0A' = greenTemp
         /\ ObserveWrite(<<redTemp, greenTemp, blueTemp>>)
  /\ nFadeWrite' = nFadeWrite + 1
  /\ pc' = "fadeDelay"
  /\ lastOp' = "fadeWrite"
  /\ UNCHANGED <<lightTab, mainVars, timersOn, setup, fadeCounter, holdCounter,
                 runCounts, passHist, nTargetWrite, nFadeDelay, nHoldDelay>>
  /\ lastRead' = {}
  /\ UNCHANGED <<firsts, threaded>>

\* body of the fade loop up to the register writes
FadeStep ==
  /\ pc = "fade"
  /\ fadeCounter <= FadeTime
  /\ LET r == FadeAdjust(fadeCounter, redTemp, redTime, redInc, redTimeInc)
         g == FadeAdjust(fadeCounter, greenTemp, greenTime, greenInc, greenTimeInc)
         b == FadeAdjust(fadeCounter, blueTemp, blueTime, blueInc, blueTimeInc)
     IN  /\ redTemp' = r[1] /\ redTime' = r[2]
         /\ greenTemp' = g[1] /\ greenTime' = g[2]
         /\ blueTemp' = b[1] /\ blueTime' = b[2]
         /\ OCR1A' = r[1] /\ OCR1B' = b[1] /\ OCR0A' = g[1]
         /\ ObserveWrite(<<r[1], g[1], b[1]>>)
  /\ nFadeWrite' = nFadeWrite + 1
  /\ pc' = "fadeDelay"
  /\ lastOp' = "fadeWrite"
  /\ UNCHANGED <<lightTab, mainVars, timersOn, setup, fadeCounter, holdCounter,
                 runCounts, passHist, nTargetWrite, nFadeDelay, nHoldDelay>>
  /\ lastRead' = {}
  /\ UNCHANGED <<firsts, threaded>>

\* delay_ten_us(100) in the fade loop, then fadeCounter++
FadeDelay ==
  /\ pc = "fadeDelay"
  /\ nFadeDelay' = nFadeDelay + 1
  /\ passTicks' = passTicks + 1
  /\ fadeCounter' = fadeCounter + 1
  /\ pc' = "fade"
  /\ lastOp' = "fadeDelay"
  /\ UNCHANGED <<lightTab, mainVars, regs, timersOn, setup, running,
                 holdCounter, runCounts, passPlayed, nFadeWrite, nTargetWrite,
                 nHoldDelay>>
  /\ lastRead' = {}
  /\ UNCHANGED obs

\* FinalWrite with the running values written instead of the targets
FinalWriteTemp ==
  /\ pc = "fade"
  /\ ~(fadeCounter <= FadeTime)
  /\ OCR1A' = redTemp /\ OCR1B' = blueTemp /\ OCR0A' = greenTemp
  /\ ObserveWrite(<<redTemp, greenTemp, blueTemp>>)
  /\ nTargetWrite' = nTargetWrite + 1
  /\ holdCounter' = 0
  /\ pc' = "hold"
  /\ lastOp' = "finalWrite"
  /\ UNCHANGED <<lightTab, mainVars, timersOn, setup, running, fadeCounter,
                 runCounts, passHist, nFadeWrite, nFadeDelay, nHoldDelay>>
  /\ lastRead' = {}
  /\ UNCHANGED <<firsts, threaded>>

\* the fade loop is left; set all LEDs to the new values; int holdCounter=0
FinalWrite ==
  /\ pc = "fade"
  /\ ~(fadeCounter <= FadeTime)
  /\ OCR1A' = Red /\ OCR1B' = Blue /\ OCR0A' = Green
  /\ ObserveWrite(<<Red, Green, Blue>>)
  /\ nTargetWrite' = nTargetWrite + 1
  /\ holdCounter' = 0
  /\ pc' = "hold"
  /\ lastOp' = "finalWrite"
  /\ UNCHANGED <<lightTab, mainVars, timersOn, setup, running, fadeCounter,
                 runCounts, passHist, nFadeWrite, nFadeDelay, nHoldDelay>>
  /\ lastRead' = {}
  /\ UNCHANGED <<firsts, threaded>>

\* HoldDelay with holdCounter<=HoldTime as the loop test
HoldDelayOffByOne ==
  /\ pc = "hold"
  /\ holdCounter <= HoldTime
  /\ nHoldDelay' = nHoldDelay + 1
  /\ passTicks' = passTicks + 1
  /\ holdCounter' = holdCounter + 1
  /\ pc' = "hold"
  /\ lastOp' = "holdDelay"
  /\ UNCHANGED <<lightTab, mainVars, regs, timersOn, setup, running,
                 fadeCounter, runCounts, passPlayed, nFadeWrite, nTargetWrite,
                 nFadeDelay>>
  /\ lastRead' = {}
  /\ UNCHANGED obs

\* HoldDelay with the running values written in each iteration
HoldDelayWritesTemp ==
  /\ pc = "hold"
  /\ holdCounter < HoldTime
  /\ OCR1A' = redTemp /\ OCR1B' = blueTemp /\ OCR0A' = greenTemp
  /\ nHoldDelay' = nHoldDelay + 1
  /\ passTicks' = passTicks + 1
  /\ holdCounter' = holdCounter + 1
  /\ pc' = "hold"
  /\ lastOp' = "holdDelay"
  /\ UNCHANGED <<lightTab, mainVars, timersOn, setup, running,
                 fadeCounter, runCounts, passPlayed, nFadeWrite, nTargetWrite,
                 nFadeDelay>>
  /\ lastRead' = {}
  /\ UNCHANGED obs

\* one iteration of the hold loop: delay_ten_us(100), then holdCounter++
HoldDelay ==
  /\ pc = "hold"
  /\ holdCounter < HoldTime
  /\ nHoldDelay' = nHoldDelay + 1
  /\ passTicks' = passTicks + 1
  /\ holdCounter' = holdCounter + 1
  /\ pc' = "hold"
  /\ lastOp' = "holdDelay"
  /\ UNCHANGED <<lightTab, mainVars, regs, timersOn, setup, running,
                 fadeCounter, runCounts, passPlayed, nFadeWrite, nTargetWrite,
                 nFadeDelay>>
  /\ lastRead' = {}
  /\ UNCHANGED obs

\* the locals of sendrgbElement go out of scope
LocalsGone ==
  /\ FadeTime' = 0 /\ HoldTime' = 0
  /\ Red' = 0 /\ Green' = 0 /\ Blue' = 0
  /\ redPrev' = 0 /\ greenPrev' = 0 /\ bluePrev' = 0
  /\ redTime' = 0 /\ greenTime' = 0 /\ blueTime' = 0
  /\ redTemp' = 0 /\ greenTemp' = 0 /\ blueTemp' = 0
  /\ redDelta' = 0 /\ greenDelta' = 0 /\ blueDelta' = 0
  /\ redTimeInc' = 0 /\ greenTimeInc' = 0 /\ blueTimeInc' = 0
  /\ redInc' = 0 /\ greenInc' = 0 /\ blueInc' = 0
  /\ fadeCounter' = 0 /\ holdCounter' = 0

\* Return without the index++ of main
ReturnNoIncrement ==
  /\ pc = "hold"
  /\ ~(holdCounter < HoldTime)
  /\ LocalsGone
  /\ index' = index
  /\ pc' = "while"
  /\ lastOp' = "return"
  /\ UNCHANGED <<lightTab, count, regs, timersOn, runCounts, passHist, keyHist>>
  /\ lastRead' = {}
  /\ threaded' = Outputs
  /\ UNCHANGED <<firsts, writeObs>>

\* the hold loop is left and sendrgbElement returns; main does index++
Return ==
  /\ pc = "hold"
  /\ ~(holdCounter < HoldTime)
  /\ LocalsGone
  /\ index' = index + 1
  /\ pc' = "while"
  /\ lastOp' = "return"
  /\ UNCHANGED <<lightTab, count, regs, timersOn, runCounts, passHist, keyHist>>
  /\ lastRead' = {}
  /\ threaded' = Outputs
  /\ UNCHANGED <<firsts, writeObs>>

\* ------------------------------------------------------------------------
\* main
\* ------------------------------------------------------------------------
\* WhileTest with || in place of && in the sentinel test
WhileTestOr ==
  /\ pc = "while"
  /\ IF ~(Entry(index).fadeTime = 0 \/ Entry(index).holdTime = 0)
     THEN /\ pc' = "call"
          /\ lastOp' = "next"
          /\ UNCHANGED nPasses
     ELSE /\ pc' = "passEnd"
          /\ lastOp' = "sentinel"
          /\ nPasses' = nPasses + 1
  /\ UNCHANGED <<lightTab, mainVars, regs, timersOn, locals, nInit, nTeardown,
                 passHist, keyHist>>
  /\ lastRead' = {index}
  /\ UNCHANGED obs

\* while (!(lightTab[index].fadeTime == 0 && lightTab[index].holdTime == 0))
WhileTest ==
  /\ pc = "while"
  /\ IF ~IsSentinel(Entry(index))
     THEN /\ pc' = "call"
          /\ lastOp' = "next"
          /\ UNCHANGED nPasses
     ELSE /\ pc' = "passEnd"
          /\ lastOp' = "sentinel"
          /\ nPasses' = nPasses + 1
  /\ UNCHANGED <<lightTab, mainVars, regs, timersOn, locals, nInit, nTeardown,
                 passHist, keyHist>>
  /\ lastRead' = {index}
  /\ UNCHANGED obs

\* PassEnd without index = 0
PassEndNoReset ==
  /\ pc = "passEnd"
  /\ index' = index
  /\ count' = count + 1
  /\ pc' = "forTest"
  /\ lastOp' = "passEnd"
  /\ UNCHANGED <<lightTab, regs, timersOn, locals, runCounts, passHist, keyHist>>
  /\ lastRead' = {}
  /\ firstWrites' = (IF count = 0 THEN nPassWrites ELSE firstWrites)
  /\ firstTicks' = (IF count = 0 THEN passTicks ELSE firstTicks)
  /\ UNCHANGED <<writeObs, threaded>>

\* index = 0; then count++ of the for loop
PassEnd ==
  /\ pc = "passEnd"
  /\ index' = 0
  /\ count' = count + 1
  /\ pc' = "forTest"
  /\ lastOp' = "passEnd"
  /\ UNCHANGED <<lightTab, regs, timersOn, locals, runCounts, passHist, keyHist>>
  /\ lastRead' = {}
  /\ firstWrites' = (IF count = 0 THEN nPassWrites ELSE firstWrites)
  /\ firstTicks' = (IF count = 0 THEN passTicks ELSE firstTicks)
  /\ UNCHANGED <<writeObs, threaded>>

\* ForEnter with count<=360 as the loop test
ForEnterOffByOne ==
  /\ pc = "forTest"
  /\ count <= NumPasses
  /\ passPlayed' = <<>>
  /\ passTicks' = 0
  /\ pc' = "call"
  /\ lastOp' = "passStart"
  /\ UNCHANGED <<lightTab, mainVars, regs, timersOn, locals, runCounts, keyHist>>
  /\ lastRead' = {}
  /\ nPassWrites' = 0
  /\ threaded' = <<0, 0, 0>>
  /\ UNCHANGED <<firsts, probe>>

\* count<360 holds: the do-while body is entered
ForEnter ==
  /\ pc = "forTest"
  /\ count < NumPasses
  /\ passPlayed' = <<>>
  /\ passTicks' = 0
  /\ pc' = "call"
  /\ lastOp' = "passStart"
  /\ UNCHANGED <<lightTab, mainVars, regs, timersOn, locals, runCounts, keyHist>>
  /\ lastRead' = {}
  /\ nPassWrites' = 0
  /\ threaded' = <<0, 0, 0>>
  /\ UNCHANGED <<firsts, probe>>

\* count<360 fails: the for loop is left and main calls teardown
ForExit ==
  /\ pc = "forTest"
  /\ ~(count < NumPasses)
  /\ pc' = "teardown"
  /\ lastOp' = "forExit"
  /\ UNCHANGED <<lightTab, mainVars, regs, timersOn, locals, runCounts,
                 passHist, keyHist>>
  /\ lastRead' = {}
  /\ UNCHANGED obs

\* teardown: the timers are stopped, the pins disconnected, the CPU sleeps
teardown ==
  /\ pc = "teardown"
  /\ timersOn' = FALSE
  /\ nTeardown' = nTeardown + 1
  /\ pc' = "asleep"
  /\ lastOp' = "teardown"
  /\ UNCHANGED <<lightTab, mainVars, regs, locals, nInit, nPasses, passHist,
                 keyHist>>
  /\ lastRead' = {}
  /\ UNCHANGED obs

\* the steps of sendrgbElement
Play ==
  \/ sendrgbElement \/ BlinkCheck \/ FadeStep \/ FadeDelay \/ FinalWrite
  \/ HoldDelay \/ Return

\* the steps of main after initialize
Loop == WhileTest \/ PassEnd \/ ForEnter \/ ForExit \/ teardown

Next == initialize \/ Play \/ Loop

\* the program from power-on
Spec == Init /\ [][Next]_vars

\* the same with the scheduling of a single sequential thread: a step that
\* can be taken is taken
FairSpec == Spec /\ WF_vars(Next)

\* ------------------------------------------------------------------------
\* The last pass
\* ------------------------------------------------------------------------
\* the state at the for test after c >= 1 completed passes: the registers
\* hold the targets of the last keyframe, the counts are those of the pass
\* just finished
AtPassStart(c) ==
  /\ pc = "forTest"
  /\ index = 0 /\ count = c
  /\ OCR1A = TargetOf(N - 1)[1]
  /\ OCR0A = TargetOf(N - 1)[2]
  /\ OCR1B = TargetOf(N - 1)[3]
  /\ timersOn = TRUE
  /\ ZeroLocals
  /\ nInit = 1 /\ nTeardown = 0 /\ nPasses = c
  /\ passPlayed = [i \in 1..N |-> i - 1]
  /\ passTicks = PassTicks(lightTab)
  /\ nFadeWrite = Entry(N - 1).fadeTime
  /\ nTargetWrite = (IF Entry(N - 1).fadeTime = 0 THEN 2 ELSE 1)
  /\ nFadeDelay = Entry(N - 1).fadeTime
  /\ nHoldDelay = Entry(N - 1).holdTime
  /\ lastOp = "passEnd"
  /\ lastRead = {}
  /\ nPassWrites = SumWrites(lightTab, N)
  /\ firstWrites = SumWrites(lightTab, N)
  /\ firstTicks = PassTicks(lightTab)
  /\ threaded = TargetOf(N - 1)

\* main at the for test before the last pass, for every table of Tables
InitPass ==
  /\ lightTab \in Tables
  /\ AtPassStart(NumPasses - 1)
  /\ probe = NoProbe

NextPass == Play \/ Loop

PassSpec == InitPass /\ [][NextPass]_vars

FairPassSpec == PassSpec /\ WF_vars(NextPass)

\* the last pass over a two-keyframe table
InitKey ==
  /\ lightTab \in KeyTables
  /\ AtPassStart(NumPasses - 1)
  /\ probe = NoProbe

KeySpec == InitKey /\ [][NextPass]_vars

\* the last pass over a long-fade table
InitInt ==
  /\ lightTab \in IntTables
  /\ AtPassStart(NumPasses - 1)
  /\ probe = NoProbe

IntSpec == InitInt /\ [][NextPass]_vars

\* ------------------------------------------------------------------------
\* sendrgbElement as one step
\* ------------------------------------------------------------------------
\* the state in which main finds the program when sendrgbElement(index - 1)
\* has returned and index++ is done
KeyframeDone ==
  /\ index \in 1..N
  /\ OCR1A = TargetOf(index - 1)[1]
  /\ OCR0A = TargetOf(index - 1)[2]
  /\ OCR1B = TargetOf(index - 1)[3]
  /\ timersOn = TRUE
  /\ ZeroLocals
  /\ passPlayed = [i \in 1..index |-> i - 1]
  /\ passTicks = SumTicks(lightTab, index)
  /\ nFadeWrite = Entry(index - 1).fadeTime
  /\ nTargetWrite = (IF Entry(index - 1).fadeTime = 0 THEN 2 ELSE 1)
  /\ nFadeDelay = Entry(index - 1).fadeTime
  /\ nHoldDelay = Entry(index - 1).holdTime
  /\ lastOp = "return"
  /\ lastRead = {}
  /\ nPassWrites = SumWrites(lightTab, index)
  /\ threaded = TargetOf(index - 1)

\* the whole call sendrgbElement(index) and the index++ after it, taken as a
\* single step: it leaves the program in the state KeyframeDone describes
PlayKeyframe ==
  /\ pc = "call"
  /\ OCR1A' = TargetOf(index)[1]
  /\ OCR0A' = TargetOf(index)[2]
  /\ OCR1B' = TargetOf(index)[3]
  /\ LocalsGone
  /\ passPlayed' = Append(passPlayed, index)
  /\ passTicks' = passTicks + Entry(index).fadeTime + Entry(index).holdTime
  /\ nFadeWrite' = Entry(index).fadeTime
  /\ nTargetWrite' = (IF Entry(index).fadeTime = 0 THEN 2 ELSE 1)
  /\ nFadeDelay' = Entry(index).fadeTime
  /\ nHoldDelay' = Entry(index).holdTime
  /\ nPassWrites' = nPassWrites + WritesOfKey(Entry(index))
  /\ threaded' = TargetOf(index)
  /\ index' = index + 1
  /\ pc' = "while"
  /\ lastOp' = "return"
  /\ lastRead' = {}
  /\ UNCHANGED <<lightTab, count, timersOn, runCounts, firsts, probe>>

\* the last pass over the table built into the program, keyframe by keyframe
InitRef ==
  /\ lightTab = RefTab
  /\ AtPassStart(NumPasses - 1)
  /\ probe = NoProbe

NextRef == PlayKeyframe \/ Loop

RefSpec == InitRef /\ [][NextRef]_vars

\* every return of sendrgbElement, played tick by tick, gives the state the
\* single step PlayKeyframe gives
WhileShape == (pc = "while") => KeyframeDone

\* from power-on, every later for test is in a state of the shape InitPass
\* starts from
PassStartShape == (pc = "forTest" /\ count >= 1) => AtPassStart(count)

\* positions inside sendrgbElement
KeyPcs == {"blink", "fade", "fadeDelay", "hold"}

\* some register has been written in the current keyframe
Written == nFadeWrite + nTargetWrite > 0

\* ------------------------------------------------------------------------
\* Properties
\* ------------------------------------------------------------------------

\* C1: the last values written to the three outputs before the hold phase
\* starts (the final write) are the keyframe's targets, 255 minus the table
\* intensities, whatever the fade loop did to the running values.
C1_FinalWriteIsTarget ==
  (lastOp = "finalWrite") =>
     /\ OCR1A = 255 - Entry(index).red
     /\ OCR0A = 255 - Entry(index).green
     /\ OCR1B = 255 - Entry(index).blue

\* a fade that adjusted green and still left it short of its target
C1_Witness ==
  /\ lastOp = "finalWrite"
  /\ FadeTime > 0
  /\ greenTemp # greenPrev
  /\ greenTemp # Green

\* C2 as stated: a keyframe with fadeTime 0 writes each output exactly once
\* (the targets) and runs no tick of the fade loop.
C2_OneWriteWhenBlink ==
  (pc = "hold" /\ FadeTime = 0) =>
     /\ nTargetWrite + nFadeWrite = 1
     /\ nFadeDelay = 0
     /\ Outputs = TargetOf(index)

\* C2 amended: a keyframe with fadeTime 0 writes each output exactly twice,
\* both times with the targets (at the FadeTime == 0 test and at the final
\* write), and runs no tick of the fade loop: no write of running values and
\* no delay before the hold phase.
C2_TwoWritesWhenBlink ==
  /\ (pc \in {"fade", "hold"} /\ FadeTime = 0) =>
        /\ nFadeWrite = 0
        /\ nFadeDelay = 0
        /\ Outputs = TargetOf(index)
  /\ (pc = "fade" /\ FadeTime = 0) => nTargetWrite = 1
  /\ (pc = "hold" /\ FadeTime = 0) => nTargetWrite = 2

\* a blink keyframe at index 1 that changed the outputs and finished its hold
C2_Witness ==
  /\ pc = "hold"
  /\ FadeTime = 0
  /\ index = 1
  /\ holdCounter = HoldTime
  /\ Outputs # PrevOf(index)

\* C3: a channel whose delta is 0 is never adjusted: its running value stays
\* at the previous value, which is its target, and every value written to its
\* output in this keyframe is that value, whatever the other channels do.
C3_ZeroDeltaConstant ==
  (pc \in KeyPcs) =>
     /\ (redDelta = 0) =>
           /\ redTemp = redPrev /\ redPrev = Red
           /\ Written => OCR1A = redPrev
     /\ (greenDelta = 0) =>
           /\ greenTemp = greenPrev /\ greenPrev = Green
           /\ Written => OCR0A = greenPrev
     /\ (blueDelta = 0) =>
           /\ blueTemp = bluePrev /\ bluePrev = Blue
           /\ Written => OCR1B = bluePrev

\* red does not change while blue has been adjusted, in the second tick or later
C3_Witness ==
  /\ pc = "fadeDelay"
  /\ fadeCounter >= 2
  /\ redDelta = 0
  /\ blueDelta # 0
  /\ blueTemp # bluePrev

\* C4: a pass terminates: from the for test it reaches the sentinel, and when
\* it does sendrgbElement has been called exactly N times in the pass.
C4_PassTerminates ==
  /\ [](pc = "passEnd" => Len(passPlayed) = N)
  /\ ((pc = "forTest" /\ count < NumPasses) ~> (pc = "passEnd"))

\* the sentinel reached after two keyframes
C4_Witness ==
  /\ pc = "passEnd"
  /\ N = 2
  /\ Len(passPlayed) = 2

\* C5: the one-tick delays of a pass are fadeTime in the fade loop and
\* holdTime in the hold loop of each keyframe, and nothing else: at the
\* sentinel their number is the sum of fadeTime + holdTime over the table.
C5_PassTicks ==
  /\ (pc \in KeyPcs) =>
        passTicks = SumTicks(lightTab, index) + nFadeDelay + nHoldDelay
  /\ (pc = "while") =>
        /\ nFadeDelay = Entry(index - 1).fadeTime
        /\ nHoldDelay = Entry(index - 1).holdTime
        /\ passTicks = SumTicks(lightTab, index)
  /\ (pc = "passEnd") => passTicks = PassTicks(lightTab)

\* a pass of two keyframes with more ticks than one keyframe can have
C5_Witness ==
  /\ pc = "passEnd"
  /\ N = 2
  /\ passTicks > MaxFade + MaxHold

\* C6: the sentinel is never played: sendrgbElement never runs with the
\* sentinel's index; from the return of the last keyframe to the call of
\* keyframe 0 of the next pass no register is written; and the step after the
\* sentinel is detected sets index to 0.
C6_SentinelNotPlayed ==
  [][ /\ (pc' \in KeyPcs) =>
            /\ index' < N
            /\ ~IsSentinel(lightTab'[index' + 1])
      /\ (pc \in {"while", "passEnd", "forTest"}) =>
            /\ regs' = regs
            /\ keyHist' = keyHist
      /\ (pc = "while" /\ IsSentinel(Entry(index))) => pc' = "passEnd"
      /\ (pc = "passEnd") => (index' = 0 /\ pc' = "forTest")
    ]_vars

\* the next pass is entered at index 0 with the outputs still at the targets
\* of the last keyframe
C6_Witness ==
  /\ lastOp = "passStart"
  /\ nPasses = NumPasses - 1
  /\ index = 0
  /\ Outputs = TargetOf(N - 1)
  /\ Outputs # <<0, 0, 0>>

\* what C7 says of every state
C7_Lifecycle ==
  /\ nInit <= 1 /\ nTeardown <= 1 /\ nPasses <= NumPasses
  /\ (nInit = 0) => (pc = "init" /\ lastOp = "none" /\ passPlayed = <<>>)
  /\ (pc # "init") => nInit = 1
  /\ (lastOp = "passStart") => (index = 0 /\ nPasses = count)
  /\ (pc \in {"teardown", "asleep"}) => nPasses = NumPasses
  /\ (pc = "asleep") <=> (nTeardown = 1)

\* C7: initialize runs once, before anything is played; exactly 360 passes
\* run, each entered at index 0; then teardown runs once, and after it no
\* step is taken at all.
C7_MainRunsOnce == []C7_Lifecycle /\ [][nTeardown = 0]_vars

\* asleep after 360 passes over a table of two keyframes
C7_Witness ==
  /\ pc = "asleep"
  /\ nInit = 1 /\ nTeardown = 1
  /\ nPasses = NumPasses
  /\ N = 2

\* what C8 says of every state
C8_Held ==
  /\ (pc = "hold") =>
        /\ Outputs = TargetOf(index)
        /\ nHoldDelay = holdCounter
        /\ holdCounter <= HoldTime
  /\ (pc \in {"while", "passEnd"}) =>
        /\ nHoldDelay = Entry(index - 1).holdTime
        /\ Outputs = TargetOf(index - 1)
  /\ (pc = "call" /\ index > 0) => Outputs = TargetOf(index - 1)

\* C8: the hold phase runs exactly holdTime one-tick delays and writes no
\* register: the outputs stay at the targets from the final write until the
\* next keyframe starts.
C8_HoldKeepsTarget ==
  /\ []C8_Held
  /\ [][ (pc = "hold") =>
            /\ regs' = regs
            /\ nFadeWrite' = nFadeWrite
            /\ nTargetWrite' = nTargetWrite ]_vars

\* a hold of at least one tick, finished, after a fade that left red short
C8_Witness ==
  /\ pc = "hold"
  /\ HoldTime >= 1
  /\ holdCounter = HoldTime
  /\ redTemp # Red

\* what C9 says of every state
C9_Counts ==
  /\ (pc = "fade") =>
        /\ fadeCounter >= 1 /\ fadeCounter <= FadeTime + 1
        /\ nFadeWrite = fadeCounter - 1
        /\ nFadeDelay = fadeCounter - 1
  /\ (pc = "fadeDelay") =>
        /\ fadeCounter >= 1 /\ fadeCounter <= FadeTime
        /\ nFadeWrite = fadeCounter
        /\ nFadeDelay = fadeCounter - 1
        /\ lastOp = "fadeWrite"
        /\ OCR1A = redTemp /\ OCR0A = greenTemp /\ OCR1B = blueTemp
  /\ (pc = "hold") => (nFadeWrite = FadeTime /\ nFadeDelay = FadeTime)

\* C9: the fade counter runs from 1 to fadeTime; every tick writes the
\* running values, as adjusted in that tick, once to the three outputs and
\* then delays one tick, so a keyframe's fade loop makes fadeTime writes and
\* fadeTime delays, one delay right after each write.
C9_FadeTick ==
  /\ []C9_Counts
  /\ [][ (lastOp = "fadeWrite") =>
            /\ lastOp' = "fadeDelay"
            /\ regs' = regs
            /\ nFadeDelay' = nFadeDelay + 1
            /\ fadeCounter' = fadeCounter + 1 ]_vars

\* the last write of a fade of two or more ticks in which no channel has
\* been adjusted
C9_Witness ==
  /\ pc = "fadeDelay"
  /\ FadeTime >= 2
  /\ fadeCounter = FadeTime
  /\ redTemp = redPrev /\ greenTemp = greenPrev /\ blueTemp = bluePrev

\* what C10 says of every state
C10_Played ==
  /\ \A i \in 1..Len(passPlayed) : passPlayed[i] = i - 1
  /\ (pc \in KeyPcs) => index = Len(passPlayed) - 1
  /\ (pc = "passEnd") => Len(passPlayed) = N
  /\ (pc = "hold") =>
        /\ nFadeWrite = FadeTime /\ nFadeDelay = FadeTime
        /\ nTargetWrite >= 1
        /\ lastOp \in {"finalWrite", "holdDelay"}

\* C10: in a pass the keyframes are played in the order 0, 1, ..., N-1, each
\* once; a keyframe's fade and final write come before its hold, its hold is
\* complete before it returns, and the sentinel test and the next keyframe
\* come only after that return.
C10_PassOrder ==
  /\ []C10_Played
  /\ [][ /\ (pc = "hold") => pc' \in {"hold", "while"}
         /\ (pc' = "while") =>
               (pc = "hold" /\ holdCounter = HoldTime /\ nHoldDelay = HoldTime)
         /\ (pc' = "hold") => pc \in {"fade", "hold"}
         /\ (pc' = "blink") => pc = "call"
         /\ (pc' = "call") => pc \in {"while", "forTest"}
         /\ (pc' = "passEnd") => pc = "while" ]_vars

\* the sentinel reached after keyframes 0 and 1, both with ticks
C10_Witness ==
  /\ pc = "passEnd"
  /\ passPlayed = <<0, 1>>
  /\ passTicks >= 2

\* the steps that write the three outputs
WriteOps == {"blinkWrite", "fadeWrite", "finalWrite"}

\* C11: all passes emit the same sequence: a write picked anywhere in the
\* first pass is repeated in every later pass at the same place (same number
\* in the pass, same values, after the same number of tick delays, under the
\* same step intervals), and every later pass has as many writes and ticks
\* as the first.
C11_PassesAlike ==
  /\ (lastOp \in WriteOps /\ probe.k = nPassWrites) =>
        /\ Outputs = probe.val
        /\ passTicks = probe.ticks
        /\ <<redTimeInc, greenTimeInc, blueTimeInc>> = probe.steps
  /\ (pc = "passEnd" /\ nPasses >= 2) =>
        /\ nPassWrites = firstWrites
        /\ passTicks = firstTicks

\* the last pass repeats a fade write of the first pass that was not all 0
C11_Witness ==
  /\ lastOp = "fadeWrite"
  /\ nPasses = NumPasses - 1
  /\ probe.k = nPassWrites
  /\ Outputs = probe.val
  /\ probe.val # <<0, 0, 0>>

\* C12: one pass over the table built into the program takes 259,000 ticks,
\* the total the comment above lightTab gives.
C12_RefPassTicks ==
  (lightTab = RefTab /\ pc = "passEnd") => passTicks = DocPassTicks

Abs(x) == IF x < 0 THEN -x ELSE x

\* the step interval of a channel that goes from prev to target in fade ticks
IntervalOf(fade, prev, target) ==
  IF target = prev THEN 0 ELSE (fade \div Abs(target - prev)) + 1

\* C13: while a keyframe plays, each channel's step interval is 0 when the
\* channel does not change and floor(FadeTime / |delta|) + 1 otherwise; the
\* sign of delta has no part in it.
C13_StepInterval ==
  (pc \in KeyPcs) =>
     /\ redDelta = Red - redPrev
     /\ greenDelta = Green - greenPrev
     /\ blueDelta = Blue - bluePrev
     /\ redTimeInc = IntervalOf(FadeTime, redPrev, Red)
     /\ greenTimeInc = IntervalOf(FadeTime, greenPrev, Green)
     /\ blueTimeInc = IntervalOf(FadeTime, bluePrev, Blue)
     /\ (lastOp = "enter") =>
           /\ redTime = redTimeInc
           /\ greenTime = greenTimeInc
           /\ blueTime = blueTimeInc

\* a fade of LongFade ticks over the whole range downwards: the interval is 2
C13_Witness ==
  /\ lastOp = "enter" /\ FadeTime = LongFade
  /\ redDelta = -255 /\ redTimeInc = 2
  /\ greenDelta = -254 /\ greenTimeInc = 2

\* C14: when the fade loop of a keyframe with FadeTime > 0 is over and the
\* targets are not yet written, each running value is within one unit of its
\* target.
C14_FadeEndsNearTarget ==
  (pc = "fade" /\ FadeTime > 0 /\ fadeCounter > FadeTime) =>
     /\ Abs(Red - redTemp) <= 1
     /\ Abs(Green - greenTemp) <= 1
     /\ Abs(Blue - blueTemp) <= 1

\* +1 / -1 / 0: the direction of a delta
Sgn(x) == IF x > 0 THEN 1 ELSE IF x < 0 THEN -1 ELSE 0

\* what tick number tick does to a changing channel with step interval s:
\* one unit in the direction of delta at the multiples of s, nothing otherwise
TickMoves(tick, delta, s, temp, tempNext) ==
  (delta # 0) =>
     tempNext = temp + (IF tick % s = 0 THEN Sgn(delta) ELSE 0)

\* the value of a changing channel when ticks ticks of the fade are done
AfterTicks(ticks, delta, s, prev, temp) ==
  (delta # 0) => temp = prev + Sgn(delta) * (ticks \div s)

\* C15: in each tick of the fade loop a changing channel moves by one unit
\* in the direction of its delta if the tick number is a multiple of its
\* step interval and stays as it is otherwise; when the loop is left it has
\* had floor(FadeTime / interval) adjustments.
C15_AdjustedAtMultiples ==
  [][ /\ (pc = "fade" /\ pc' = "fadeDelay") =>
           /\ fadeCounter \in 1..FadeTime
           /\ TickMoves(fadeCounter, redDelta, redTimeInc, redTemp, redTemp')
           /\ TickMoves(fadeCounter, greenDelta, greenTimeInc, greenTemp, greenTemp')
           /\ TickMoves(fadeCounter, blueDelta, blueTimeInc, blueTemp, blueTemp')
           /\ Outputs' = <<redTemp', greenTemp', blueTemp'>>
      /\ (pc = "fade" /\ pc' = "hold") =>
           /\ AfterTicks(FadeTime, redDelta, redTimeInc, redPrev, redTemp)
           /\ AfterTicks(FadeTime, greenDelta, greenTimeInc, greenPrev, greenTemp)
           /\ AfterTicks(FadeTime, blueDelta, blueTimeInc, bluePrev, blueTemp)
      /\ (pc \in KeyPcs /\ pc' \in KeyPcs /\ pc' # "fadeDelay") =>
           <<redTemp', greenTemp', blueTemp'>> = <<redTemp, greenTemp, blueTemp>>
    ]_vars

\* the second adjustment of a channel that steps down every other tick,
\* next to a channel that steps every third tick
C15_Witness ==
  /\ lastOp = "fadeWrite" /\ fadeCounter = 4
  /\ redDelta < 0 /\ redTimeInc = 2
  /\ redTemp = redPrev - 2 /\ OCR1A = redTemp
  /\ greenDelta < 0 /\ greenTimeInc = 3 /\ greenTemp = greenPrev - 1

\* v lies between a and b, whichever of them is the larger
Between(a, v, b) == (a <= v /\ v <= b) \/ (b <= v /\ v <= a)

\* the adjustments a channel has had: its next adjustment tick is
\* (adjustments + 1) * interval
Adjustments(time, timeInc) == (time \div timeInc) - 1

\* one channel inside its range, and not adjusted more often than |delta|
InRange(prev, temp, target, delta, time, timeInc) ==
  /\ temp \in 0..255
  /\ Between(prev, temp, target)
  /\ (timeInc # 0) =>
        /\ Adjustments(time, timeInc) <= Abs(delta)
        /\ Abs(temp - prev) = Adjustments(time, timeInc)

\* C16: while a keyframe plays, each channel has had at most |delta|
\* adjustments and its running value, and with it every value written in the
\* fade loop, lies between the previous value and the target inclusive.
C16_NeverPassesTarget ==
  (pc \in KeyPcs) =>
     /\ InRange(redPrev, redTemp, Red, redDelta, redTime, redTimeInc)
     /\ InRange(greenPrev, greenTemp, Green, greenDelta, greenTime, greenTimeInc)
     /\ InRange(bluePrev, blueTemp, Blue, blueDelta, blueTime, blueTimeInc)
     /\ (lastOp = "fadeWrite") => Outputs = <<redTemp, greenTemp, blueTemp>>

\* the last tick of a long fade down over the whole range: 250 steps of
\* adding 255 have brought red from 255 to 5
C16_Witness ==
  /\ lastOp = "fadeWrite" /\ FadeTime = LongFade /\ fadeCounter = FadeTime
  /\ redPrev = 255 /\ Red = 0 /\ redInc = 255
  /\ redTemp = 5 /\ OCR1A = 5

\* the value written for one channel at fade tick number tick, from that
\* channel's previous value and target and the fade time alone
ChannelValue(fade, prev, target, tick) ==
  IF target = prev THEN prev
  ELSE prev + Sgn(target - prev) * (tick \div IntervalOf(fade, prev, target))

\* C17: every value written for a channel is determined by the fade time,
\* the tick number and that channel's own previous value and target; the
\* other two channels have no part in it, so two runs that differ only in
\* them write the same values for this channel.
C17_ChannelsIndependent ==
  /\ (lastOp = "fadeWrite") =>
        /\ OCR1A = ChannelValue(FadeTime, redPrev, Red, fadeCounter)
        /\ OCR0A = ChannelValue(FadeTime, greenPrev, Green, fadeCounter)
        /\ OCR1B = ChannelValue(FadeTime, bluePrev, Blue, fadeCounter)
  /\ (lastOp \in {"blinkWrite", "finalWrite"}) =>
        /\ OCR1A = Red
        /\ OCR0A = Green
        /\ OCR1B = Blue

\* a tick at which red has moved while green and blue, both with a target
\* of their own to reach, have not moved yet
C17_Witness ==
  /\ lastOp = "fadeWrite" /\ fadeCounter = 2
  /\ OCR1A = redPrev - 1
  /\ greenDelta # 0 /\ OCR0A = greenPrev
  /\ blueDelta # 0 /\ OCR1B = bluePrev

\* C18: in every pass, the previous values a keyframe starts from are the
\* values the keyframe before it ended with, and 0 for the first keyframe of
\* the pass; the running values start from them.
C18_PrevIsThreaded ==
  /\ (pc \in KeyPcs) => <<redPrev, greenPrev, bluePrev>> = threaded
  /\ (lastOp = "enter") => <<redTemp, greenTemp, blueTemp>> = threaded
  /\ (lastOp = "return") => threaded = TargetOf(index - 1)
  /\ (pc = "call" /\ index = 0) => threaded = <<0, 0, 0>>

\* the second keyframe of the second pass starts from values other than 0,
\* left by the first
C18_Witness ==
  /\ lastOp = "enter" /\ index = 1 /\ nPasses = 1
  /\ threaded # <<0, 0, 0>>
  /\ <<redPrev, greenPrev, bluePrev>> = threaded
  /\ <<Red, Green, Blue>> # threaded

\* C19: the table is read inside its bounds only: sendrgbElement is called
\* with an index in 0..N-1 and reads that entry and, for an index of 1 or
\* more, the entry before it; the do-while test reads entry index with index
\* in 1..N, N being the place of the sentinel; index never passes N.
C19_ReadsInBounds ==
  /\ index \in 0..N
  /\ lastRead \subseteq 0..N
  /\ (pc = "call" \/ pc \in KeyPcs) => index \in 0..(N - 1)
  /\ (lastOp = "enter") =>
        /\ index \in lastRead
        /\ lastRead \subseteq {index - 1, index}
        /\ (index - 1 \in lastRead) <=> (index >= 1)
  /\ (lastOp \in {"next", "sentinel"}) =>
        /\ lastRead = {index}
        /\ index \in 1..N
  /\ (lastOp = "sentinel") <=> (lastRead = {N})

\* the do-while test reads the sentinel, the last entry, of a table of two
\* or more keyframes
C19_Witness ==
  /\ lastOp = "sentinel" /\ N >= 2
  /\ index = N /\ lastRead = {N}
  /\ IsSentinel(Entry(index))

\* C20: the first tick of the fade loop of any keyframe with FadeTime > 0,
\* in any pass, writes values that differ by at most one unit per channel
\* from the values the registers hold when the tick begins.
C20_FadeStartsFromOutputs ==
  [][ (pc = "fade" /\ pc' = "fadeDelay" /\ FadeTime > 0 /\ fadeCounter = 1) =>
         /\ Abs(OCR1A' - OCR1A) <= 1
         /\ Abs(OCR0A' - OCR0A) <= 1
         /\ Abs(OCR1B' - OCR1B) <= 1
    ]_vars

\* the largest of three numbers
Max3(a, b, c) ==
  IF a >= b /\ a >= c THEN a ELSE IF b >= c THEN b ELSE c

\* the int variables of sendrgbElement
IntLocals ==
  { FadeTime, HoldTime, fadeCounter, holdCounter,
    redDelta, greenDelta, blueDelta,
    redTime, greenTime, blueTime,
    redTimeInc, greenTimeInc, blueTimeInc }

\* one channel's next adjustment tick is at most one step interval past the
\* fade time, and that is at most 2 * fade + 1
TickBound(fade, time, timeInc) ==
  /\ time <= fade + timeInc
  /\ fade + timeInc <= 2 * fade + 1

\* C21 as stated: for a fadeTime of 0..16383 neither the fade counter nor a
\* channel's next adjustment tick exceeds fadeTime plus the step interval
\* (for the counter: the largest of the three intervals), which is at most
\* 2 * fadeTime + 1, and every int stays in the range of a 16-bit int.
C21_CounterWithinInterval ==
  (pc \in KeyPcs /\ FadeTime \in 0..MaxIntFade) =>
     /\ fadeCounter <= FadeTime + Max3(redTimeInc, greenTimeInc, blueTimeInc)
     /\ TickBound(FadeTime, redTime, redTimeInc)
     /\ TickBound(FadeTime, greenTime, greenTimeInc)
     /\ TickBound(FadeTime, blueTime, blueTimeInc)
     /\ 2 * FadeTime + 1 <= IntMax
     /\ IntLocals \subseteq IntRange

\* C21, amended: for a fadeTime of 0..16383 the fade counter never exceeds
\* fadeTime + 1 and a channel's next adjustment tick never exceeds fadeTime
\* plus its step interval, both at most 2 * fadeTime + 1, and every int
\* stays in the range of a 16-bit int.
C21_NoIntOverflow ==
  (pc \in KeyPcs /\ FadeTime \in 0..MaxIntFade) =>
     /\ fadeCounter <= FadeTime + 1
     /\ FadeTime + 1 <= 2 * FadeTime + 1
     /\ TickBound(FadeTime, redTime, redTimeInc)
     /\ TickBound(FadeTime, greenTime, greenTimeInc)
     /\ TickBound(FadeTime, blueTime, blueTimeInc)
     /\ 2 * FadeTime + 1 <= IntMax
     /\ IntLocals \subseteq IntRange

\* the end of the longest fade: red, three units to go, was adjusted twice
\* and is scheduled past the fade time; blue, one unit to go, has the
\* largest interval there is and was never adjusted
C21_Witness ==
  /\ pc = "fade" /\ FadeTime = MaxIntFade /\ fadeCounter = FadeTime + 1
  /\ Abs(redDelta) = 3 /\ redTime = 3 * redTimeInc /\ redTime > FadeTime + 1
  /\ Abs(blueDelta) = 1 /\ blueTimeInc = FadeTime + 1 /\ blueTime = blueTimeInc

====
